---- MODULE Spec2Model ----
(***************************************************************************)
(* Model of nerfstudio/exporter/exporter_utils.py: generate_point_cloud,   *)
(* render_trajectory, collect_camera_poses_for_dataset and                 *)
(* collect_camera_poses.                                                   *)
(*                                                                         *)
(* Tensors are modelled by their row structure: a [N,3] tensor is a        *)
(* sequence of N rows, a row (3-vector, colour, 512-wide feature) is one   *)
(* integer, and elementwise arithmetic is integer arithmetic on the rows.  *)
(***************************************************************************)
EXTENDS Integers, Sequences, FiniteSets, TLC

\* ------------------------------------------------------------- bounds
MaxPoints  == 2      \* num_points ranges over -1..MaxPoints
MaxBatch   == 2      \* a ray batch holds 0..MaxBatch rays
MaxEmpty   == 1      \* zero-ray batches one run may draw
MaxCameras == 2      \* cameras per trajectory / per dataset

\* ------------------------------------------------------------- constants
NumScales == 30      \* for scale in range(30)

None == "None"

\* The rays the datamanager samples from, and what the (deterministic,
\* no_grad) model maps each of them to.
Rays == {1, 2}
Origin(r)    == r - 1
Direction(r) == r
Depth(r)     == r
Rgb(r)       == 10 + r
NormalOut(r) == r - 1
Clip(r)      == [s \in 0..(NumScales - 1) |-> 100 * r + s]

Channels == {"rgb", "depth", "clip", "normals"}

VARIABLES
    op,                 \* which function the caller invoked
    pc,                 \* position in it
    err,                \* why the process exited / what was raised
    \* generate_point_cloud: arguments
    num_points, remove_outliers, estimate_normals, normal_output_name,
    \* generate_point_cloud: environment
    emptyAllowed,       \* may the datamanager return zero-ray batches
    batches,            \* the ray bundles handed to the model so far
    outputs,            \* keys of the model outputs of the last evaluation
    \* generate_point_cloud: locals
    points, rgbs, normals, clips, origins, directions,
    completed, finished,
    cat,                \* the tensors lines 187-192 concatenate the lists into
    h5, h5state,        \* the container file and whether it was written
    pcd, ind,
    \* render_trajectory
    cameras_size, camera_idx, images, depths,
    \* collect_camera_poses / collect_camera_poses_for_dataset
    train_dataset, eval_dataset, dataset,
    ret

cfgVars  == <<op, num_points, remove_outliers, estimate_normals,
              normal_output_name, emptyAllowed, cameras_size,
              train_dataset, eval_dataset, dataset>>
accVars  == <<points, rgbs, normals, clips, origins, directions>>
progVars == <<completed, finished>>
outVars  == <<cat, h5, h5state, pcd, ind>>
renVars  == <<camera_idx, images, depths>>
vars == <<cfgVars, pc, err, batches, outputs, accVars, progVars, outVars,
          renVars, ret>>

\* ------------------------------------------------------------- helpers
RECURSIVE Cat(_)
\* torch.cat(list, dim=0)
Cat(list) == IF list = <<>> THEN <<>> ELSE Head(list) \o Cat(Tail(list))

\* rich: progress.advance() marks the task finished once completed >= total,
\* and progress_bar.finished reads that mark (it is not set before the first
\* advance, whatever the total)
TaskFinishedEarly(done, total) == done + 1 >= total
TaskFinishedLate(done, total) == done > total
TaskFinished(done, total) == done >= total

\* rgb_output_name not in outputs or depth_output_name not in outputs or
\* clip_output_name not in outputs
MissingRequiredNoDepth(out) ==
    "rgb" \notin out \/ "clip" \notin out
MissingRequired(out) ==
    "rgb" \notin out \/ "depth" \notin out \/ "clip" \notin out

\* point = ray_bundle.origins + ray_bundle.directions * depth
PointNoDepth(o, d, depth) == [i \in 1..Len(o) |-> o[i] + d[i]]
Point(o, d, depth) == [i \in 1..Len(o) |-> o[i] + d[i] * depth[i]]

\* normal = (normal * 2.0) - 1.0
Remap(n) == [i \in 1..Len(n) |-> n[i] * 2 - 1]

\* torch.cat of the unsqueezed clips needs every batch to have the same shape
SameShape(list) == \A i, j \in 1..Len(list) : Len(list[i]) = Len(list[j])

\* clips[:, :, scale, :].view(-1, 1, 512), squeezed
ScaleRows(c, scale) ==
    Cat([b \in 1..Len(c) |-> [i \in 1..Len(c[b]) |-> c[b][i][scale]]])

\* the datasets created in the h5 file
H5DataFiltered(o, d, p, r, c) ==
    [origins |-> o, directions |-> d, points |-> SubSeq(p, 1, Len(p) - 1),
     rgb |-> r, clip |-> [s \in 0..(NumScales - 1) |-> ScaleRows(c, s)]]
H5Data(o, d, p, r, c) ==
    [origins |-> o, directions |-> d, points |-> p, rgb |-> r,
     clip |-> [s \in 0..(NumScales - 1) |-> ScaleRows(c, s)]]

NoH5  == [origins |-> <<>>, directions |-> <<>>, points |-> <<>>, rgb |-> <<>>,
          clip |-> [s \in 0..(NumScales - 1) |-> <<>>]]
NoCat == [origins |-> <<>>, directions |-> <<>>, points |-> <<>>, rgbs |-> <<>>,
          clips |-> <<>>]
NoPcd == [points |-> <<>>, colors |-> <<>>, normals |-> <<>>, has_normals |-> FALSE]
NoInd == [some |-> FALSE, idx |-> <<>>]

\* the increasing index lists remove_statistical_outlier may return for n points
RECURSIVE Sorted(_)
Sorted(S) == IF S = {} THEN <<>>
             ELSE LET m == CHOOSE x \in S : \A y \in S : x <= y
                  IN  <<m>> \o Sorted(S \ {m})
Masks(n) == {Sorted(S) : S \in SUBSET (1..n)}

\* tensor[ind] / select_by_index
Take(seq, idx) == [k \in 1..Len(idx) |-> seq[idx[k]]]

\* normals = normals[ind] when remove_outliers produced a mask
MaskNormalsSkipped(n, mask) == n
MaskNormals(n, mask) == IF mask.some THEN Take(n, mask.idx) ELSE n

EmptyCount(bs) == Cardinality({i \in 1..Len(bs) : Len(bs[i]) = 0})

\* ------------------------------------------------------------- datasets
Transforms == {"T1", "T2"}
Filenames  == {"a.png", "b.png"}
NoDataset  == [isNone |-> TRUE, cameras |-> <<>>, image_filenames |-> <<>>]
Datasets   ==
    {NoDataset} \cup
    UNION {{[isNone |-> FALSE, cameras |-> c, image_filenames |-> f] :
                c \in [1..n -> Transforms], f \in [1..n -> Filenames]} :
           n \in 0..MaxCameras}

\* range(cameras.size)
CameraRangeShort(size) == 0..(size - 2)
CameraRange(size) == 0..(size - 1)

\* camera k of a trajectory renders to these
RenderRgb(k)   == 10 + k
RenderDepth(k) == 20 + k

\* ------------------------------------------------------------- Init
InitLocals ==
    /\ err = "none"
    /\ batches = <<>> /\ outputs = {}
    /\ points = <<>> /\ rgbs = <<>> /\ normals = <<>> /\ clips = <<>>
    /\ origins = <<>> /\ directions = <<>>
    /\ completed = 0 /\ finished = FALSE
    /\ cat = NoCat /\ h5 = NoH5 /\ pcd = NoPcd /\ ind = NoInd
    /\ camera_idx = 0 /\ images = <<>> /\ depths = <<>>
    /\ ret = <<>>

InitGpc ==
    /\ op = "gpc" /\ pc = "loop"
    /\ num_points \in (0 - 1)..MaxPoints
    /\ remove_outliers \in BOOLEAN
    /\ estimate_normals \in BOOLEAN
    /\ normal_output_name \in {None, "normals"}
    /\ emptyAllowed \in BOOLEAN
    /\ h5state \in {"absent", "old"}
    /\ cameras_size = 0
    /\ train_dataset = NoDataset /\ eval_dataset = NoDataset /\ dataset = NoDataset

InitRender ==
    /\ op = "render" /\ pc = "render"
    /\ cameras_size \in 0..MaxCameras
    /\ num_points = 0 /\ remove_outliers = FALSE /\ estimate_normals = FALSE
    /\ normal_output_name = None /\ emptyAllowed = FALSE /\ h5state = "absent"
    /\ train_dataset = NoDataset /\ eval_dataset = NoDataset /\ dataset = NoDataset

InitPoses ==
    /\ op = "poses" /\ pc = "poses"
    /\ train_dataset \in Datasets /\ eval_dataset \in Datasets
    /\ dataset = NoDataset
    /\ cameras_size = 0
    /\ num_points = 0 /\ remove_outliers = FALSE /\ estimate_normals = FALSE
    /\ normal_output_name = None /\ emptyAllowed = FALSE /\ h5state = "absent"

InitPosesForDataset ==
    /\ op = "poses_for_dataset" /\ pc = "poses_for_dataset"
    /\ dataset \in Datasets
    /\ train_dataset = NoDataset /\ eval_dataset = NoDataset
    /\ cameras_size = 0
    /\ num_points = 0 /\ remove_outliers = FALSE /\ estimate_normals = FALSE
    /\ normal_output_name = None /\ emptyAllowed = FALSE /\ h5state = "absent"

Init ==
    /\ InitLocals
    /\ (InitGpc \/ InitRender \/ InitPoses \/ InitPosesForDataset)

\* ------------------------------------------------------------- generate_point_cloud
\* sys.exit(1) / an exception leaves every local as it is
Fail(kind, why) ==
    /\ pc' = kind /\ err' = why
    /\ UNCHANGED <<accVars, progVars>>

\* one iteration of `while not progress_bar.finished`
Iterate ==
    /\ op = "gpc" /\ pc = "loop" /\ ~finished
    /\ \E n \in 0..MaxBatch, present \in SUBSET Channels, inRange \in BOOLEAN :
       \E rays \in [1..n -> Rays] :
         /\ (n = 0) => (emptyAllowed /\ EmptyCount(batches) < MaxEmpty)
         /\ batches' = Append(batches, rays)
         /\ outputs' = present
         /\ LET o  == [i \in 1..n |-> Origin(rays[i])]
                d  == [i \in 1..n |-> Direction(rays[i])]
                dp == [i \in 1..n |-> Depth(rays[i])]
                nm == [i \in 1..n |-> NormalOut(rays[i])]
            IN
            IF MissingRequired(present)
              THEN Fail("exit", "missing")
            ELSE IF normal_output_name # None /\ normal_output_name \notin present
              THEN Fail("exit", "missing_normal")
            ELSE IF normal_output_name # None /\ n = 0
              THEN Fail("raised", "min_of_empty")    \* torch.min of an empty tensor
            ELSE IF normal_output_name # None /\ ~inRange
              THEN Fail("raised", "normal_range")    \* the assert
            ELSE
              /\ points' = Append(points, Point(o, d, dp))
              /\ directions' = Append(directions, d)
              /\ rgbs' = Append(rgbs, [i \in 1..n |-> Rgb(rays[i])])
              /\ clips' = Append(clips, [i \in 1..n |-> Clip(rays[i])])
              /\ origins' = Append(origins, o)
              /\ normals' = IF normal_output_name # None
                              THEN Append(normals, Remap(nm)) ELSE normals
              /\ completed' = completed + n
              /\ finished' = TaskFinished(completed + n, num_points)
              /\ UNCHANGED <<pc, err>>
    /\ UNCHANGED <<cfgVars, outVars, renVars, ret>>

\* lines 187-192
Concatenate ==
    /\ op = "gpc" /\ pc = "loop" /\ finished
    /\ LET flat == [origins |-> Cat(origins), directions |-> Cat(directions),
                     points |-> Cat(points), rgbs |-> Cat(rgbs), clips |-> <<>>]
       IN  IF SameShape(clips)
             THEN /\ cat' = [flat EXCEPT !.clips = clips]
                  /\ pc' = "write" /\ err' = err
             ELSE /\ cat' = flat
                  /\ pc' = "raised" /\ err' = "cat_clips"
    /\ UNCHANGED <<cfgVars, batches, outputs, accVars, progVars,
                   h5, h5state, pcd, ind, renVars, ret>>

\* lines 196-221
WriteH5 ==
    /\ op = "gpc" /\ pc = "write"
    /\ h5state' = "written"
    /\ h5' = H5Data(cat.origins, cat.directions, cat.points, cat.rgbs, cat.clips)
    /\ pc' = "filter"
    /\ UNCHANGED <<op, num_points, remove_outliers, estimate_normals,
                   normal_output_name, emptyAllowed, cameras_size,
                   train_dataset, eval_dataset, dataset>>
    /\ UNCHANGED <<err, batches, outputs, accVars, progVars, cat, pcd, ind,
                   renVars, ret>>

\* lines 225-234
RemoveOutliers ==
    /\ op = "gpc" /\ pc = "filter"
    /\ IF remove_outliers
         THEN \E idx \in Masks(Len(cat.points)) :
                /\ pcd' = [points |-> Take(cat.points, idx),
                           colors |-> Take(cat.rgbs, idx),
                           normals |-> <<>>, has_normals |-> FALSE]
                /\ ind' = [some |-> TRUE, idx |-> idx]
         ELSE /\ pcd' = [points |-> cat.points, colors |-> cat.rgbs,
                         normals |-> <<>>, has_normals |-> FALSE]
              /\ ind' = NoInd
    /\ pc' = "normals"
    /\ UNCHANGED <<cfgVars, err, batches, outputs, accVars, progVars, cat,
                   h5, h5state, renVars, ret>>

\* lines 236-256
ResolveNormals ==
    /\ op = "gpc" /\ pc = "normals"
    /\ IF estimate_normals
         THEN IF normal_output_name # None
                THEN /\ pc' = "exit" /\ err' = "conflict"
                     /\ UNCHANGED pcd
                ELSE /\ pcd' = [pcd EXCEPT !.normals = [i \in 1..Len(pcd.points) |-> 0],
                                           !.has_normals = TRUE]
                     /\ pc' = "returned"
                     /\ UNCHANGED err
         ELSE IF normal_output_name # None
                THEN /\ pcd' = [pcd EXCEPT !.normals = MaskNormals(Cat(normals), ind),
                                           !.has_normals = TRUE]
                     /\ pc' = "returned"
                     /\ err' = err
                ELSE /\ pc' = "returned"
                     /\ UNCHANGED <<err, pcd>>
    /\ UNCHANGED <<cfgVars, batches, outputs, accVars, progVars, cat, h5,
                   h5state, ind, renVars, ret>>

\* ------------------------------------------------------------- render_trajectory
\* one iteration of `for camera_idx in range(cameras.size)`
RenderCamera ==
    /\ op = "render" /\ pc = "render"
    /\ camera_idx \in CameraRange(cameras_size)
    /\ \E present \in SUBSET {"rgb", "depth"} :
         /\ outputs' = present
         /\ batches' = Append(batches, <<camera_idx>>)
         /\ IF "rgb" \notin present
              THEN pc' = "exit" /\ err' = "missing_rgb" /\ UNCHANGED renVars
            ELSE IF "depth" \notin present
              THEN pc' = "exit" /\ err' = "missing_depth" /\ UNCHANGED renVars
            ELSE /\ images' = Append(images, RenderRgb(camera_idx))
                 /\ depths' = Append(depths, RenderDepth(camera_idx))
                 /\ camera_idx' = camera_idx + 1
                 /\ UNCHANGED <<pc, err>>
    /\ UNCHANGED <<cfgVars, accVars, progVars, outVars, ret>>

RenderReturn ==
    /\ op = "render" /\ pc = "render"
    /\ camera_idx \notin CameraRange(cameras_size)
    /\ ret' = <<images, depths>>
    /\ pc' = "returned"
    /\ UNCHANGED <<cfgVars, err, batches, outputs, accVars, progVars, outVars,
                   renVars>>

\* ------------------------------------------------------------- camera poses
\* collect_camera_poses_for_dataset
Frames(ds) ==
    IF ds.isNone THEN <<>>
    ELSE [idx \in 1..Len(ds.cameras) |->
            [file_path |-> ds.image_filenames[idx], transform |-> ds.cameras[idx]]]

CollectCameraPosesForDataset ==
    /\ op = "poses_for_dataset" /\ pc = "poses_for_dataset"
    /\ ret' = <<Frames(dataset)>>
    /\ pc' = "returned"
    /\ UNCHANGED <<cfgVars, err, batches, outputs, accVars, progVars, outVars,
                   renVars>>

\* collect_camera_poses
CollectCameraPoses ==
    /\ op = "poses" /\ pc = "poses"
    /\ IF train_dataset.isNone \/ eval_dataset.isNone
         THEN pc' = "raised" /\ err' = "assert_isinstance" /\ ret' = ret
         ELSE /\ ret' = <<Frames(train_dataset), Frames(eval_dataset)>>
              /\ pc' = "returned" /\ err' = err
    /\ UNCHANGED <<cfgVars, batches, outputs, accVars, progVars, outVars,
                   renVars>>

\* ------------------------------------------------------------- specification
Next ==
    \/ Iterate
    \/ Concatenate
    \/ WriteH5
    \/ RemoveOutliers
    \/ ResolveNormals
    \/ RenderCamera
    \/ RenderReturn
    \/ CollectCameraPosesForDataset
    \/ CollectCameraPoses

Spec == Init /\ [][Next]_vars

\* the loop is single-threaded and keeps running
FairSpec == Spec /\ WF_vars(Iterate)

\* ------------------------------------------------------------- properties
RECURSIVE SumLen(_)
\* the total number of rows of a list of batches
SumLen(list) == IF list = <<>> THEN 0 ELSE Len(Head(list)) + SumLen(Tail(list))
\* every ray drawn so far, in draw order
Drawn == Cat(batches)
\* what ray r contributes
RayPoint(r)  == Origin(r) + Direction(r) * Depth(r)
RayNormal(r) == NormalOut(r) * 2 - 1
\* the accumulated point count
AccCount == SumLen(points)
Conflict == estimate_normals /\ normal_output_name # None
Propagate == ~estimate_normals /\ normal_output_name # None
\* RUNNING of the point accumulator: accumulated count below the budget
Running == op = "gpc" /\ pc = "loop" /\ completed < num_points
LoopActive == op = "gpc" /\ pc = "loop" /\ ~finished
\* the indices of Drawn that the returned point cloud keeps
Kept == IF ind.some THEN ind.idx ELSE [i \in 1..Len(Drawn) |-> i]

\* C1: a call with estimate_normals and a normal_output_name fails before
\* any batch is drawn: at the failure next_train was never called, nothing
\* is accumulated and the container file was not opened for writing.
C1_ConflictFailsBeforeSampling ==
    (op = "gpc" /\ Conflict /\ pc = "exit" /\ err = "conflict") =>
        /\ Len(batches) = 0
        /\ AccCount = 0
        /\ h5state # "written"

\* C2: whenever the outputs of the last evaluation omit rgb, depth or clip,
\* at the first or at a later iteration, the process has terminated at that
\* iteration: the batch was not accumulated, the container file was neither
\* created nor overwritten and no point cloud exists.
C2_MissingChannelTerminates ==
    (op = "gpc" /\ Len(batches) > 0
       /\ ("rgb" \notin outputs \/ "depth" \notin outputs \/ "clip" \notin outputs)) =>
        /\ pc = "exit" /\ err = "missing"
        /\ SumLen(points) = SumLen(SubSeq(batches, 1, Len(batches) - 1))
        /\ h5state # "written" /\ h5 = NoH5
        /\ pcd = NoPcd

C2_Witness ==
    /\ op = "gpc" /\ pc = "exit" /\ err = "missing"
    /\ Len(batches) = 2 /\ SumLen(points) = 1
    /\ "depth" \notin outputs /\ "rgb" \in outputs

C4_Order ==
    /\ (op = "gpc" /\ h5state = "written") => finished
    /\ (op = "gpc" /\ h5state # "written") =>
            (pc \in {"loop", "write", "exit", "raised"} /\ ~ind.some /\ pcd = NoPcd)
    /\ (op = "gpc" /\ h5state = "written") =>
            /\ Len(h5.points) = SumLen(batches)
            /\ Len(h5.origins) = SumLen(batches)
            /\ Len(h5.directions) = SumLen(batches)
            /\ Len(h5.rgb) = SumLen(batches)
            /\ h5.points = [i \in 1..Len(Drawn) |-> RayPoint(Drawn[i])]
\* C4: the order and row counts above hold in every state, and once the
\* container is written no later step changes it.
C4_WriteBeforeFilter ==
    /\ []C4_Order
    /\ [][h5state = "written" => (h5' = h5 /\ h5state' = "written")]_vars

C4_Witness ==
    /\ op = "gpc" /\ pc = "returned" /\ h5state = "written"
    /\ remove_outliers /\ ind.some
    /\ Len(pcd.points) < Len(h5.points)

\* C5: the returned point cloud is the sequence origin_i + direction_i *
\* depth_i of the drawn rays, in draw order, restricted to the kept indices:
\* without outlier removal there is no mask and points and colors are the
\* whole sequence (one batch of n rays with num_points = n gives exactly n
\* points); with outlier removal the kept indices are an increasing
\* selection, so the count is at most the unfiltered count.
C5_ReturnedPoints ==
    (op = "gpc" /\ pc = "returned") =>
        /\ ind.some = remove_outliers
        /\ Len(pcd.points) = Len(Kept) /\ Len(pcd.colors) = Len(Kept)
        /\ Len(pcd.points) <= SumLen(batches)
        /\ \A k \in 1..Len(Kept) :
              /\ Kept[k] \in 1..Len(Drawn)
              /\ k > 1 => Kept[k - 1] < Kept[k]
              /\ pcd.points[k] = RayPoint(Drawn[Kept[k]])
              /\ pcd.colors[k] = Rgb(Drawn[Kept[k]])
        /\ ~remove_outliers =>
              /\ Len(pcd.points) = SumLen(batches)
              /\ (Len(batches) = 1 /\ Len(batches[1]) = num_points) =>
                     Len(pcd.points) = num_points

C5_Witness ==
    /\ op = "gpc" /\ pc = "returned" /\ ~remove_outliers
    /\ Len(batches) = 1 /\ num_points = MaxPoints
    /\ Len(pcd.points) = MaxPoints
    /\ \E i \in 1..Len(Drawn) : Depth(Drawn[i]) # 1

\* C6: collect_camera_poses_for_dataset(None) returns an empty sequence, and
\* collect_camera_poses with an absent train or eval dataset returns the
\* empty sequence for it and the ordered records of the other, never raising.
C6_AbsentDatasetYieldsEmpty ==
    /\ (op = "poses_for_dataset" /\ pc = "returned" /\ dataset.isNone) => ret = << <<>> >>
    /\ op = "poses" => pc # "raised"
    /\ (op = "poses" /\ pc = "returned") =>
            ret = <<Frames(train_dataset), Frames(eval_dataset)>>

\* C7: for every run that reaches the budget, also with batches of different
\* sizes, concatenation succeeds and each of the 30 scale datasets written
\* has as many rows as points, row i belonging to the ray of row i of points.
C7_ClipRowsAligned ==
    /\ (op = "gpc" /\ finished) => err # "cat_clips"
    /\ (op = "gpc" /\ h5state = "written") =>
          \A s \in 0..(NumScales - 1) :
              /\ Len(h5.clip[s]) = Len(h5.points)
              /\ \A i \in 1..Len(Drawn) : h5.clip[s][i] = Clip(Drawn[i])[s]

\* C8: under the propagate policy one normal is accumulated per ray in every
\* iteration, and the normals of the returned point cloud are as many as its
\* points, normal i and point i coming from the same drawn ray: the kept
\* ray of the mask when outlier removal ran, ray i when it did not.
C8_NormalsAligned ==
    (op = "gpc" /\ Propagate) =>
        /\ Len(normals) = Len(points)
        /\ \A b \in 1..Len(points) : Len(normals[b]) = Len(points[b])
        /\ pc = "returned" =>
              /\ pcd.has_normals
              /\ ind.some = remove_outliers
              /\ Len(pcd.normals) = Len(pcd.points)
              /\ Len(pcd.normals) = Len(Kept)
              /\ \A k \in 1..Len(Kept) :
                    /\ pcd.normals[k] = RayNormal(Drawn[Kept[k]])
                    /\ pcd.points[k] = RayPoint(Drawn[Kept[k]])

C8_Witness ==
    /\ op = "gpc" /\ Propagate /\ pc = "returned"
    /\ ind.some /\ ind.idx = <<2>>
    /\ Len(Drawn) = 2 /\ Drawn[1] # Drawn[2]

\* C9: render_trajectory returns two sequences of length cameras.size whose
\* entries k both come from the evaluation of camera k; when rgb or depth is
\* missing for a camera the process terminates at that camera and returns
\* nothing.
C9_OneImagePairPerCamera ==
    op = "render" =>
        /\ pc = "returned" =>
              /\ ret = <<images, depths>>
              /\ Len(ret[1]) = cameras_size /\ Len(ret[2]) = cameras_size
              /\ \A k \in 0..(cameras_size - 1) :
                    ret[1][k + 1] = RenderRgb(k) /\ ret[2][k + 1] = RenderDepth(k)
        /\ (Len(batches) > 0 /\ ("rgb" \notin outputs \/ "depth" \notin outputs)) =>
              /\ pc = "exit" /\ ret = <<>>
              /\ batches[Len(batches)] = <<camera_idx>>
              /\ Len(images) = camera_idx /\ Len(depths) = camera_idx
        /\ pc = "exit" => ("rgb" \notin outputs \/ "depth" \notin outputs)

C9_Witness ==
    /\ op = "render" /\ pc = "returned"
    /\ cameras_size = MaxCameras /\ Len(ret[1]) = MaxCameras

\* C10: when every batch holds at least one ray the loop leaves RUNNING, and
\* for num_points >= 1 it does so within num_points iterations; an iteration
\* on a zero-ray batch leaves the accumulated count unchanged and the loop
\* not DONE.
C10_Bounded ==
    (op = "gpc" /\ ~emptyAllowed /\ num_points >= 1) => Len(batches) <= num_points
C10_ZeroBatchStep ==
    (Running /\ Len(batches') = Len(batches) + 1 /\ batches'[Len(batches')] = <<>>) =>
        /\ completed' = completed /\ ~finished'
        /\ SumLen(points') = SumLen(points)
        /\ pc' \in {"loop", "exit", "raised"}
====
